---- MODULE Spec2Model ----
(***************************************************************************)
(* A model of the instrumented TLS handshake and protocol-upgrade engine:  *)
(*   - zlib.Conn (src/zlib/conn.go): the connection upgrade state machine  *)
(*     (STARTTLS negotiation, TLSHandshake, CheckHeartbleed, FTPS);        *)
(*   - the ztls handshake recorder (src/unnamed/part_000): setSkx,         *)
(*     DHParams.unmarshal, ExportSignatureAlgorithm.MarshalJSON.           *)
(* Strings the code slices or inspects are sequences of one-character      *)
(* strings; Go errors are strings, the nil error is Nil.                   *)
(***************************************************************************)
EXTENDS Integers, Sequences, FiniteSets, TLC

VARIABLES
    c,      \* the zlib.Conn object: its fields, the raw stream and the TLS stream
    ret,    \* what the last Conn method called returned: [op, err, n]
    trace,  \* the calls that method made on the streams and the ztls engine
    engine, \* how often ztls.Client and Handshake were called so far
    skx,    \* handshake recorder: the serverKeyExchangeMsg and negotiated suite
    hs,     \* handshake recorder: the ServerHandshake log being built
    dh,     \* a DHParams value, receiver of DHParams.unmarshal
    rsaExport, \* an rsaExportParams value and the log MakeLog built from it
    esa,    \* an ExportSignatureAlgorithm value
    aux     \* what ExportSignatureAlgorithm.MarshalJSON serialized

vars == <<c, ret, trace, engine, skx, hs, dh, rsaExport, esa, aux>>

connVars == <<c, ret, trace, engine>>
recorderVars == <<skx, hs, dh, rsaExport>>
esaVars == <<esa, aux>>

(***************************************************************************)
(* Bounds of the model.                                                    *)
(***************************************************************************)
\* Length of the buffers DHParams.unmarshal is given.
MaxBufLen == 9
\* Length of the key-exchange messages setSkx is given.
MaxKeyLen == 7
\* Lengths of the raw exponent and the raw modulus MakeLog is given.
MaxExponentLen == 5
MaxModulusLen == 2

(***************************************************************************)
(* Go values.                                                              *)
(***************************************************************************)
\* A nil pointer / nil error / empty string.
Nil == "nil"
NilPtr == [nil |-> TRUE]
EmptyString == << >>

\* len(buf) of the reply buffer a STARTTLS reply must fill to count (conn.go:477).
MinSmtpReply == 5
\* The accepted SMTP reply codes are ret >= 200 and ret < 300 (conn.go:483).
SmtpOkLow == 200
SmtpOkHigh == 300

\* The errors the Conn methods create.
ErrRepeatHandshake == "Attempted repeat handshake with remote host"
ErrStartTLSAfterTLS == "Attempt STARTTLS after TLS handshake with remote host"
ErrNoStartTLS == "Server did not indicate support for STARTTLS"
ErrBadReturnCode == "Bad return code for STARTTLS"
ErrMustHandshake == "Must perform TLS handshake before sending Heartbleed probe"
\* The sentinels of the ztls package, and any other error of a stream.
ErrUnimplementedCipher == "ztls.ErrUnimplementedCipher"
HeartbleedError == "ztls.HeartbleedError"
ErrIO == "i/o error"

\* The STARTTLS commands.
SMTP_COMMAND == <<"S","T","A","R","T","T","L","S","\r","\n">>
POP3_COMMAND == <<"S","T","L","S","\r","\n">>
IMAP_COMMAND == <<"a","0","0","1"," ","S","T","A","R","T","T","L","S","\r","\n">>

Digits == <<"0","1","2","3","4","5","6","7","8","9">>
IsDigit(ch) == \E i \in 1..Len(Digits) : Digits[i] = ch
DigitVal(ch) == (CHOOSE i \in 1..Len(Digits) : Digits[i] = ch) - 1

\* strings.HasPrefix(s, prefix)
HasPrefix(s, prefix) ==
    /\ Len(s) >= Len(prefix)
    /\ \A i \in 1..Len(prefix) : s[i] = prefix[i]

\* s[0:n] of a string of at least n bytes
Slice(s, n) == SubSeq(s, 1, n)

RECURSIVE DecimalValue(_)
DecimalValue(s) ==
    IF Len(s) = 0 THEN 0
    ELSE 10 * DecimalValue(SubSeq(s, 1, Len(s) - 1)) + DigitVal(s[Len(s)])

\* strconv.Atoi(s): an optional sign, then one or more decimal digits.
Atoi(s) ==
    LET signed == Len(s) > 0 /\ s[1] \in {"+", "-"}
        body == IF signed THEN SubSeq(s, 2, Len(s)) ELSE s
    IN  IF Len(body) = 0 \/ \E i \in 1..Len(body) : ~IsDigit(body[i])
        THEN [err |-> "strconv.Atoi: invalid syntax", val |-> 0]
        ELSE [err |-> Nil,
              val |-> IF signed /\ s[1] = "-" THEN 0 - DecimalValue(body)
                      ELSE DecimalValue(body)]

(***************************************************************************)
(* The environment: what the remote host answers.                          *)
(***************************************************************************)
\* Replies a read on the plaintext stream may deliver after a STARTTLS
\* command, with the number of bytes read being their length.
Replies ==
    { EmptyString,
      <<"2","2","0"," ","G","o"," ","a","h","e","a","d","\r","\n">>,
      <<"4","5","4"," ","T","L","S"," ","u","n","a","v","a","i","l","a","b","l","e","\r","\n">>,
      <<"2","2","0","\n">>,
      <<"3","0","0","\r","\n">>,
      <<"+","2","2"," ","\r","\n">>,
      <<"2","x","0"," ","\r","\n">>,
      <<"+","O","K","\r","\n">>,
      <<"a","0","0","1"," ","O","K","\r","\n">>,
      <<"a","0","0","1"," ","N","O","\r","\n">> }

\* Errors a Read or Write on a stream may return.
StreamErrors == {Nil, ErrIO}

\* Errors tlsConn.Handshake() may return.
HandshakeErrors == {Nil, ErrUnimplementedCipher, ErrIO}

\* Handshake logs the engine may have recorded when Handshake() returns:
\* the messages captured so far.
CompleteLog == [ServerHello |-> TRUE, ServerCertificates |-> TRUE, ServerFinished |-> TRUE]
PartialLogs ==
    { [ServerHello |-> FALSE, ServerCertificates |-> FALSE, ServerFinished |-> FALSE],
      [ServerHello |-> TRUE, ServerCertificates |-> FALSE, ServerFinished |-> FALSE] }
HandshakeLogsFor(err) == IF err = Nil THEN {CompleteLog} ELSE PartialLogs

\* Errors tlsConn.CheckHeartbleed(b) may return, and the heartbleed logs.
HeartbleedErrors == {Nil, HeartbleedError, ErrIO}
HeartbleedLogs == {[Vulnerable |-> TRUE], [Vulnerable |-> FALSE]}

(***************************************************************************)
(* zlib.Conn                                                               *)
(***************************************************************************)
NoFlags ==
    [ onlyDHE |-> FALSE, onlyExports |-> FALSE, onlyExportsDH |-> FALSE,
      chromeCiphers |-> FALSE, chromeNoDHE |-> FALSE,
      firefoxCiphers |-> FALSE, firefoxNoDHECiphers |-> FALSE,
      safariCiphers |-> FALSE, safariNoDHECiphers |-> FALSE,
      noSNI |-> FALSE, extendedRandom |-> FALSE ]

\* A Conn as NewConn leaves it: plaintext, nothing recorded.
NewConn ==
    [ tlsConn |-> NilPtr,
      isTls |-> FALSE,
      grabData |-> [ TLSHandshake |-> NilPtr, StartTLS |-> EmptyString,
                     Heartbleed |-> NilPtr,
                     Write |-> EmptyString, Read |-> EmptyString,
                     Banner |-> EmptyString, EHLO |-> EmptyString,
                     SMTPHelp |-> NilPtr ],
      readDeadline |-> 0,
      writeDeadline |-> 0,
      flags |-> NoFlags,
      domain |-> EmptyString ]

\* A call a method makes on a stream or on the ztls engine, with the data
\* written or read and the error the call returned.
Call(fn, data, err) == [fn |-> fn, data |-> data, err |-> err]

\* The methods return the Conn they leave, their results, and the calls made.
Result(conn1, err, n, calls) == [c |-> conn1, err |-> err, n |-> n, calls |-> calls]

\* getUnderlyingConn that always hands out the raw stream.
getUnderlyingConn_AlwaysRaw(cn) == "conn"

\* Conn.getUnderlyingConn: which stream a pass-through call acts on
getUnderlyingConn(cn) == IF cn.isTls THEN "tlsConn" ELSE "conn"

\* CipherSuitesOf where a flag sets the list only while no earlier flag has.
CipherSuitesOf_FirstWins(f) ==
    LET s0 == Nil
        s1 == IF f.onlyDHE /\ s0 = Nil THEN "DHECiphers" ELSE s0
        s2 == IF f.onlyExports /\ s1 = Nil THEN "RSA512ExportCiphers" ELSE s1
        s3 == IF f.onlyExportsDH /\ s2 = Nil THEN "DHEExportCiphers" ELSE s2
        s4 == IF f.chromeCiphers /\ s3 = Nil THEN "ChromeCiphers" ELSE s3
        s5 == IF f.chromeNoDHE /\ s4 = Nil THEN "ChromeNoDHECiphers" ELSE s4
        s6 == IF f.firefoxCiphers /\ s5 = Nil THEN "FirefoxCiphers" ELSE s5
        s7 == IF f.firefoxNoDHECiphers /\ s6 = Nil THEN "FirefoxNoDHECiphers" ELSE s6
        s8 == IF f.safariCiphers /\ s7 = Nil THEN "SafariCiphers" ELSE s7
        s9 == IF f.safariNoDHECiphers /\ s8 = Nil THEN "SafariNoDHECiphers" ELSE s8
    IN  s9

\* the cipher-policy part of TLSHandshake: each flag in turn overwrites the list
CipherSuitesOf(f) ==
    LET s0 == Nil
        s1 == IF f.onlyDHE THEN "DHECiphers" ELSE s0
        s2 == IF f.onlyExports THEN "RSA512ExportCiphers" ELSE s1
        s3 == IF f.onlyExportsDH THEN "DHEExportCiphers" ELSE s2
        s4 == IF f.chromeCiphers THEN "ChromeCiphers" ELSE s3
        s5 == IF f.chromeNoDHE THEN "ChromeNoDHECiphers" ELSE s4
        s6 == IF f.firefoxCiphers THEN "FirefoxCiphers" ELSE s5
        s7 == IF f.firefoxNoDHECiphers THEN "FirefoxNoDHECiphers" ELSE s6
        s8 == IF f.safariCiphers THEN "SafariCiphers" ELSE s7
        s9 == IF f.safariNoDHECiphers THEN "SafariNoDHECiphers" ELSE s8
    IN  s9

\* ForceSuitesOf with the flag set in every browser branch.
ForceSuitesOf_AllBrowsers(f) ==
    \/ f.chromeCiphers \/ f.chromeNoDHE
    \/ f.firefoxCiphers \/ f.firefoxNoDHECiphers
    \/ f.safariCiphers \/ f.safariNoDHECiphers

\* ForceSuites is set in the two Safari branches only.
ForceSuitesOf(f) == f.safariCiphers \/ f.safariNoDHECiphers

\* TlsConfigOf that sets the server name whatever noSNI says.
TlsConfigOf_IgnoresNoSNI(cn) ==
    [ ServerName |-> cn.domain,
      CipherSuites |-> CipherSuitesOf(cn.flags),
      ForceSuites |-> ForceSuitesOf(cn.flags),
      ExtendedRandom |-> cn.flags.extendedRandom ]

\* the ztls.Config TLSHandshake builds
TlsConfigOf(cn) ==
    [ ServerName |-> IF ~cn.flags.noSNI /\ cn.domain # EmptyString
                     THEN cn.domain ELSE EmptyString,
      CipherSuites |-> CipherSuitesOf(cn.flags),
      ForceSuites |-> ForceSuitesOf(cn.flags),
      ExtendedRandom |-> cn.flags.extendedRandom ]

\* ClientWithDeadlines with the two cached deadlines swapped.
ClientWithDeadlines_Swapped(cn) ==
    [ config |-> TlsConfigOf(cn),
      readDeadline |-> cn.writeDeadline,
      writeDeadline |-> cn.readDeadline,
      handshakeErr |-> Nil,
      handshakeLog |-> NilPtr,
      heartbleedLog |-> NilPtr ]

\* ztls.Client(conn, config), then the two deadline calls
ClientWithDeadlines(cn) ==
    [ config |-> TlsConfigOf(cn),
      readDeadline |-> cn.readDeadline,
      writeDeadline |-> cn.writeDeadline,
      handshakeErr |-> Nil,
      handshakeLog |-> NilPtr,
      heartbleedLog |-> NilPtr ]

\* HandshakeReturn with the sentinel swallowed whatever ForceSuites says.
HandshakeReturn_IgnoresForce(forceSuites, e) ==
    IF e = ErrUnimplementedCipher THEN Nil ELSE e

\* What TLSHandshake returns for the error e of tlsConn.Handshake().
HandshakeReturn(forceSuites, e) ==
    IF forceSuites /\ e = ErrUnimplementedCipher THEN Nil ELSE e

\* TLSHandshake without the repeat-handshake guard.
TLSHandshake_NoRepeatGuard(cn, e, log) ==
    LET fresh == ClientWithDeadlines(cn)
        shaken == [fresh EXCEPT !.handshakeErr = e, !.handshakeLog = log]
    IN  Result([cn EXCEPT !.tlsConn = shaken,
                          !.isTls = TRUE,
                          !.grabData.TLSHandshake = shaken.handshakeLog],
               IF shaken.config.ForceSuites /\ e = ErrUnimplementedCipher THEN Nil ELSE e,
               0,
               << Call("ztls.Client", << >>, Nil),
                  Call("tlsConn.Handshake", << >>, e) >>)

\* TLSHandshake returning early on a handshake error, before the log is stored.
TLSHandshake_LogOnSuccessOnly(cn, e, log) ==
    IF cn.isTls
    THEN Result(cn, ErrRepeatHandshake, 0, << >>)
    ELSE LET fresh == ClientWithDeadlines(cn)
             shaken == [fresh EXCEPT !.handshakeErr = e, !.handshakeLog = log]
             err == IF shaken.config.ForceSuites /\ e = ErrUnimplementedCipher
                    THEN Nil ELSE e
         IN  Result([cn EXCEPT !.tlsConn = shaken,
                               !.isTls = TRUE,
                               !.grabData.TLSHandshake =
                                   IF err = Nil THEN shaken.handshakeLog ELSE @],
                    err, 0,
                    << Call("ztls.Client", << >>, Nil),
                       Call("tlsConn.Handshake", << >>, e) >>)

\* TLSHandshake that enters TLS mode only when the handshake succeeded.
TLSHandshake_TlsModeOnSuccess(cn, e, log) ==
    IF cn.isTls
    THEN Result(cn, ErrRepeatHandshake, 0, << >>)
    ELSE LET fresh == ClientWithDeadlines(cn)
             shaken == [fresh EXCEPT !.handshakeErr = e, !.handshakeLog = log]
         IN  Result([cn EXCEPT !.tlsConn = shaken,
                               !.isTls = (e = Nil),
                               !.grabData.TLSHandshake = shaken.handshakeLog],
                    HandshakeReturn(shaken.config.ForceSuites, e), 0,
                    << Call("ztls.Client", << >>, Nil),
                       Call("tlsConn.Handshake", << >>, e) >>)

\* Conn.TLSHandshake, with the outcome (e, log) of tlsConn.Handshake().
TLSHandshake(cn, e, log) ==
    IF cn.isTls
    THEN Result(cn, ErrRepeatHandshake, 0, << >>)
    ELSE LET fresh == ClientWithDeadlines(cn)
             shaken == [fresh EXCEPT !.handshakeErr = e, !.handshakeLog = log]
         IN  Result([cn EXCEPT !.tlsConn = shaken,
                               !.isTls = TRUE,
                               !.grabData.TLSHandshake = shaken.handshakeLog],
                    HandshakeReturn(shaken.config.ForceSuites, e), 0,
                    << Call("ztls.Client", << >>, Nil),
                       Call("tlsConn.Handshake", << >>, e) >>)

\* sendStartTLSCommand without the isTls guard.
sendStartTLSCommand_NoGuard(cn, command, werr) ==
    Result(cn, werr, 0, << Call("conn.Write", command, werr) >>)

\* Conn.sendStartTLSCommand, with the error werr of the Write on the raw stream.
sendStartTLSCommand(cn, command, werr) ==
    IF cn.isTls
    THEN Result(cn, ErrStartTLSAfterTLS, 0, << >>)
    ELSE Result(cn, werr, 0, << Call("conn.Write", command, werr) >>)

\* SmtpCheck with the length test off by one (n < 4).
SmtpCheck_ShortByOne(reply, rerr) ==
    LET err1 == IF Len(reply) < MinSmtpReply - 1 THEN ErrNoStartTLS ELSE rerr
    IN  IF err1 = Nil
        THEN LET a == Atoi(Slice(reply, 3))
             IN  IF a.err # Nil \/ a.val < SmtpOkLow \/ a.val >= SmtpOkHigh
                 THEN ErrBadReturnCode ELSE Nil
        ELSE err1

\* The return-code check of SMTPStartTLSHandshake on the bytes read, with the
\* error rerr of the read.
SmtpCheck(reply, rerr) ==
    LET err1 == IF Len(reply) < MinSmtpReply THEN ErrNoStartTLS ELSE rerr
    IN  IF err1 = Nil
        THEN LET a == Atoi(Slice(reply, 3))
             IN  IF a.err # Nil \/ a.val < SmtpOkLow \/ a.val >= SmtpOkHigh
                 THEN ErrBadReturnCode ELSE Nil
        ELSE err1

\* PrefixCheck that looks at the reply and forgets the error of the read.
PrefixCheck_IgnoresReadError(reply, rerr, prefix) ==
    IF ~HasPrefix(reply, prefix) THEN ErrNoStartTLS ELSE Nil

\* PrefixCheck that compares the first byte of the prefix only.
PrefixCheck_FirstByteOnly(reply, rerr, prefix) ==
    IF rerr = Nil
    THEN IF ~HasPrefix(reply, SubSeq(prefix, 1, 1)) THEN ErrNoStartTLS ELSE Nil
    ELSE rerr

\* The reply check of POP3StartTLSHandshake and IMAPStartTLSHandshake.
PrefixCheck(reply, rerr, prefix) ==
    IF rerr = Nil
    THEN IF ~HasPrefix(reply, prefix) THEN ErrNoStartTLS ELSE Nil
    ELSE rerr

\* readSmtpResponse / readPop3Response / readImapStatusResponse: a
\* util.ReadUntilRegex on the stream in use, delivering (reply, rerr).
ReadResponse(cn, reply, rerr) ==
    Call(getUnderlyingConn(cn) \o ".ReadUntilRegex", reply, rerr)

\* Conn.SMTPStartTLSHandshake: werr from the send, (reply, rerr) from
\* readSmtpResponse, (e, log) from the handshake if it comes to it.
SMTPStartTLSHandshake(cn, werr, reply, rerr, e, log) ==
    LET sent == sendStartTLSCommand(cn, SMTP_COMMAND, werr)
    IN  IF sent.err # Nil THEN sent
        ELSE LET read == ReadResponse(sent.c, reply, rerr)
                 c1 == [sent.c EXCEPT !.grabData.StartTLS = reply]
                 err == SmtpCheck(c1.grabData.StartTLS, rerr)
             IN  IF err # Nil THEN Result(c1, err, 0, sent.calls \o <<read>>)
                 ELSE LET shake == TLSHandshake(c1, e, log)
                      IN  Result(shake.c, shake.err, 0,
                                 sent.calls \o <<read>> \o shake.calls)

\* Conn.POP3StartTLSHandshake
POP3StartTLSHandshake(cn, werr, reply, rerr, e, log) ==
    LET sent == sendStartTLSCommand(cn, POP3_COMMAND, werr)
    IN  IF sent.err # Nil THEN sent
        ELSE LET read == ReadResponse(sent.c, reply, rerr)
                 c1 == [sent.c EXCEPT !.grabData.StartTLS = reply]
                 err == PrefixCheck(c1.grabData.StartTLS, rerr, <<"+">>)
             IN  IF err # Nil THEN Result(c1, err, 0, sent.calls \o <<read>>)
                 ELSE LET shake == TLSHandshake(c1, e, log)
                      IN  Result(shake.c, shake.err, 0,
                                 sent.calls \o <<read>> \o shake.calls)

\* Conn.IMAPStartTLSHandshake
IMAPStartTLSHandshake(cn, werr, reply, rerr, e, log) ==
    LET sent == sendStartTLSCommand(cn, IMAP_COMMAND, werr)
    IN  IF sent.err # Nil THEN sent
        ELSE LET read == ReadResponse(sent.c, reply, rerr)
                 c1 == [sent.c EXCEPT !.grabData.StartTLS = reply]
                 err == PrefixCheck(c1.grabData.StartTLS, rerr,
                                    <<"a","0","0","1"," ","O","K">>)
             IN  IF err # Nil THEN Result(c1, err, 0, sent.calls \o <<read>>)
                 ELSE LET shake == TLSHandshake(c1, e, log)
                      IN  Result(shake.c, shake.err, 0,
                                 sent.calls \o <<read>> \o shake.calls)

\* CheckHeartbleed whose guard hands back the caller's byte count.
CheckHeartbleed_GuardReturnsN(cn, n, e, hb) ==
    IF ~cn.isTls
    THEN Result(cn, ErrMustHandshake, n, << >>)
    ELSE LET probed == [cn.tlsConn EXCEPT !.heartbleedLog = hb]
             err == IF e = HeartbleedError THEN Nil ELSE e
         IN  Result([cn EXCEPT !.tlsConn = probed,
                               !.grabData.Heartbleed = probed.heartbleedLog],
                    err, n, << Call("tlsConn.CheckHeartbleed", << >>, e) >>)

\* CheckHeartbleed that returns the heartbleed sentinel as an error.
CheckHeartbleed_KeepsSentinel(cn, n, e, hb) ==
    IF ~cn.isTls
    THEN Result(cn, ErrMustHandshake, 0, << >>)
    ELSE LET probed == [cn.tlsConn EXCEPT !.heartbleedLog = hb]
         IN  Result([cn EXCEPT !.tlsConn = probed,
                               !.grabData.Heartbleed = probed.heartbleedLog],
                    e, n, << Call("tlsConn.CheckHeartbleed", << >>, e) >>)

\* Conn.CheckHeartbleed, with the outcome (n, e, hb) of the probe on the TLS
\* stream: bytes read, error, and the heartbleed log the stream then holds.
CheckHeartbleed(cn, n, e, hb) ==
    IF ~cn.isTls
    THEN Result(cn, ErrMustHandshake, 0, << >>)
    ELSE LET probed == [cn.tlsConn EXCEPT !.heartbleedLog = hb]
             err == IF e = HeartbleedError THEN Nil ELSE e
         IN  Result([cn EXCEPT !.tlsConn = probed,
                               !.grabData.Heartbleed = probed.heartbleedLog],
                    err, n, << Call("tlsConn.CheckHeartbleed", << >>, e) >>)

\* GetFTPSCertificates that handshakes whenever SetupFTPS returned no error.
GetFTPSCertificates_IgnoresReady(cn, ftpsReady, ferr, e, log) ==
    LET setup == Call("ftp.SetupFTPS", <<ftpsReady>>, ferr)
    IN  IF ferr # Nil THEN Result(cn, ferr, 0, <<setup>>)
        ELSE LET shake == TLSHandshake(cn, e, log)
             IN  Result(shake.c, shake.err, 0, <<setup>> \o shake.calls)

\* Conn.GetFTPSCertificates, with the outcome (ftpsReady, ferr) of ftp.SetupFTPS.
GetFTPSCertificates(cn, ftpsReady, ferr, e, log) ==
    LET setup == Call("ftp.SetupFTPS", <<ftpsReady>>, ferr)
    IN  IF ferr # Nil THEN Result(cn, ferr, 0, <<setup>>)
        ELSE IF ftpsReady
        THEN LET shake == TLSHandshake(cn, e, log)
             IN  Result(shake.c, shake.err, 0, <<setup>> \o shake.calls)
        ELSE Result(cn, Nil, 0, <<setup>>)

\* The flag setters: SetDHEOnly, SetExportsOnly, ..., SetNoSNI.
SetFlag(cn, flag) == [cn EXCEPT !.flags[flag] = TRUE]

\* Conn.SetDomain
SetDomain(cn, domain) == [cn EXCEPT !.domain = domain]

\* A call on the stream in use.
StreamCall(cn, method, data, err) == Call(getUnderlyingConn(cn) \o method, data, err)

\* The deadline a setter passes on reaches the TLS stream once there is one.
PassDeadline(cn, read, write, t) ==
    IF cn.isTls
    THEN [cn EXCEPT !.tlsConn.readDeadline = IF read THEN t ELSE @,
                    !.tlsConn.writeDeadline = IF write THEN t ELSE @]
    ELSE cn

\* Conn.SetDeadline, with the error err of the stream's SetDeadline.
SetDeadline(cn, t, err) ==
    LET c1 == [cn EXCEPT !.readDeadline = t, !.writeDeadline = t]
    IN  Result(PassDeadline(c1, TRUE, TRUE, t), err, 0,
               << StreamCall(c1, ".SetDeadline", t, err) >>)

\* Conn.SetReadDeadline
SetReadDeadline(cn, t, err) ==
    LET c1 == [cn EXCEPT !.readDeadline = t]
    IN  Result(PassDeadline(c1, TRUE, FALSE, t), err, 0,
               << StreamCall(c1, ".SetReadDeadline", t, err) >>)

\* Conn.SetWriteDeadline
SetWriteDeadline(cn, t, err) ==
    LET c1 == [cn EXCEPT !.writeDeadline = t]
    IN  Result(PassDeadline(c1, FALSE, TRUE, t), err, 0,
               << StreamCall(c1, ".SetWriteDeadline", t, err) >>)

\* Write that records the whole buffer, not the n bytes written.
Write_RecordsWholeBuffer(cn, b, n, err) ==
    Result([cn EXCEPT !.grabData.Write = b], err, n,
           << StreamCall(cn, ".Write", b, err) >>)

\* Conn.Write: the stream wrote n bytes of b and returned err.
Write(cn, b, n, err) ==
    Result([cn EXCEPT !.grabData.Write = Slice(b, n)], err, n,
           << StreamCall(cn, ".Write", b, err) >>)

\* Conn.BasicBanner: the stream's Read delivered data and returned err.
BasicBanner(cn, data, err) ==
    Result([cn EXCEPT !.grabData.Banner = data], err, Len(data),
           << StreamCall(cn, ".Read", data, err) >>)

\* Conn.Read
Read(cn, data, err) ==
    Result([cn EXCEPT !.grabData.Read = data], err, Len(data),
           << StreamCall(cn, ".Read", data, err) >>)

\* Conn.Close
Close(cn, err) == Result(cn, err, 0, << StreamCall(cn, ".Close", << >>, err) >>)

\* Conn.SMTPBanner, Conn.POP3Banner and Conn.IMAPBanner: a read up to the
\* protocol's terminator, delivering (reply, rerr).
ProtocolBanner(cn, reply, rerr) ==
    Result([cn EXCEPT !.grabData.Banner = reply], rerr, Len(reply),
           << ReadResponse(cn, reply, rerr) >>)

\* Conn.EHLO: werr from the write of the command, (reply, rerr) from the read.
EHLO(cn, domain, werr, reply, rerr) ==
    LET cmd == <<"E","H","L","O"," ">> \o domain \o <<"\r","\n">>
        sent == StreamCall(cn, ".Write", cmd, werr)
    IN  IF werr # Nil THEN Result(cn, werr, 0, <<sent>>)
        ELSE Result([cn EXCEPT !.grabData.EHLO = reply], rerr, 0,
                    << sent, ReadResponse(cn, reply, rerr) >>)

\* Conn.SMTPHelp
SMTPHelp(cn, werr, reply, rerr) ==
    LET cmd == <<"H","E","L","P","\r","\n">>
        sent == StreamCall(cn, ".Write", cmd, werr)
    IN  IF werr # Nil
        THEN Result([cn EXCEPT !.grabData.SMTPHelp = [Response |-> EmptyString]],
                    werr, 0, <<sent>>)
        ELSE Result([cn EXCEPT !.grabData.SMTPHelp = [Response |-> reply]], rerr, 0,
                    << sent, ReadResponse(cn, reply, rerr) >>)

(***************************************************************************)
(* Actions of the Conn.                                                    *)
(***************************************************************************)
\* The calls named fn in a method's calls.
CallsTo(calls, fn) == {i \in 1..Len(calls) : calls[i].fn = fn}

\* A method call: the Conn it leaves, what it returned, the calls it made.
Returns(op, r) ==
    /\ c' = r.c
    /\ ret' = [op |-> op, err |-> r.err, n |-> r.n]
    /\ trace' = r.calls
    /\ engine' = [Client |-> engine.Client + Cardinality(CallsTo(r.calls, "ztls.Client")),
                  Handshake |-> engine.Handshake
                                + Cardinality(CallsTo(r.calls, "tlsConn.Handshake"))]
    /\ UNCHANGED <<recorderVars, esaVars>>

\* Bytes a heartbleed probe may read back into b.
ProbeReads == {0, 3}

\* What tlsConn.Handshake() may do: the error it returns and the log it leaves.
HandshakeOutcomes ==
    UNION { {[err |-> e, log |-> l] : l \in HandshakeLogsFor(e)} : e \in HandshakeErrors }

\* The engine's outcome is drawn only when the method reaches the engine.
OutcomesIf(r) == IF CallsTo(r.calls, "tlsConn.Handshake") = {}
                 THEN {[err |-> Nil, log |-> CompleteLog]}
                 ELSE HandshakeOutcomes

CallTLSHandshake ==
    \E o \in HandshakeOutcomes :
        Returns("TLSHandshake", TLSHandshake(c, o.err, o.log))

CallSMTPStartTLSHandshake ==
    \E werr \in StreamErrors, reply \in Replies, rerr \in StreamErrors :
    \E o \in OutcomesIf(SMTPStartTLSHandshake(c, werr, reply, rerr, Nil, CompleteLog)) :
        Returns("SMTPStartTLSHandshake",
                SMTPStartTLSHandshake(c, werr, reply, rerr, o.err, o.log))

CallPOP3StartTLSHandshake ==
    \E werr \in StreamErrors, reply \in Replies, rerr \in StreamErrors :
    \E o \in OutcomesIf(POP3StartTLSHandshake(c, werr, reply, rerr, Nil, CompleteLog)) :
        Returns("POP3StartTLSHandshake",
                POP3StartTLSHandshake(c, werr, reply, rerr, o.err, o.log))

CallIMAPStartTLSHandshake ==
    \E werr \in StreamErrors, reply \in Replies, rerr \in StreamErrors :
    \E o \in OutcomesIf(IMAPStartTLSHandshake(c, werr, reply, rerr, Nil, CompleteLog)) :
        Returns("IMAPStartTLSHandshake",
                IMAPStartTLSHandshake(c, werr, reply, rerr, o.err, o.log))

CallCheckHeartbleed ==
    \E n \in ProbeReads, e \in HeartbleedErrors, hb \in HeartbleedLogs :
        Returns("CheckHeartbleed", CheckHeartbleed(c, n, e, hb))

CallGetFTPSCertificates ==
    \E ftpsReady \in BOOLEAN, ferr \in StreamErrors :
    \E o \in OutcomesIf(GetFTPSCertificates(c, ftpsReady, ferr, Nil, CompleteLog)) :
        Returns("GetFTPSCertificates",
                GetFTPSCertificates(c, ftpsReady, ferr, o.err, o.log))

\* A setter returns nothing and calls nothing.
CallSet(flag) ==
    /\ c' = SetFlag(c, flag)
    /\ UNCHANGED <<ret, trace, engine, recorderVars, esaVars>>

CallSetSafariCiphers == CallSet("safariCiphers")
CallSetChromeCiphers == CallSet("chromeCiphers")

\* Any of the setters SetDHEOnly ... SetSafariNoDHECiphers, SetExtendedRandom,
\* SetNoSNI.
CallSetAny == \E flag \in DOMAIN NoFlags : CallSet(flag)

\* Domains a scan is configured with.
Domains == {EmptyString, <<"a", ".", "b">>}

CallSetDomain ==
    /\ \E domain \in Domains : c' = SetDomain(c, domain)
    /\ UNCHANGED <<ret, trace, engine, recorderVars, esaVars>>

\* What callers write, what a stream delivers to a read, and the deadlines
\* callers set.
Payloads == {<<"a">>, <<"b", "c">>}
ReadData == {EmptyString, <<"x">>}
Deadlines == {1, 2}

\* A Write on a stream: all of b, or an error after fewer bytes.
WriteOutcomes(b) ==
    {[n |-> Len(b), err |-> Nil]} \cup {[n |-> k, err |-> ErrIO] : k \in 0..(Len(b) - 1)}

CallSetDeadline ==
    \E t \in Deadlines, err \in StreamErrors :
        Returns("SetDeadline", SetDeadline(c, t, err))

CallSetReadDeadline ==
    \E t \in Deadlines, err \in StreamErrors :
        Returns("SetReadDeadline", SetReadDeadline(c, t, err))

CallSetWriteDeadline ==
    \E t \in Deadlines, err \in StreamErrors :
        Returns("SetWriteDeadline", SetWriteDeadline(c, t, err))

CallWrite ==
    \E b \in Payloads : \E o \in WriteOutcomes(b) :
        Returns("Write", Write(c, b, o.n, o.err))

CallRead ==
    \E data \in ReadData, err \in StreamErrors :
        Returns("Read", Read(c, data, err))

CallBasicBanner ==
    \E data \in ReadData, err \in StreamErrors :
        Returns("BasicBanner", BasicBanner(c, data, err))

CallProtocolBanner ==
    \E op \in {"SMTPBanner", "POP3Banner", "IMAPBanner"} :
    \E reply \in ReadData, rerr \in StreamErrors :
        Returns(op, ProtocolBanner(c, reply, rerr))

CallClose ==
    \E err \in StreamErrors : Returns("Close", Close(c, err))

CallEHLO ==
    \E domain \in Domains, werr \in StreamErrors :
    \E reply \in ReadData, rerr \in StreamErrors :
        Returns("EHLO", EHLO(c, domain, werr, reply, rerr))

CallSMTPHelp ==
    \E werr \in StreamErrors, reply \in ReadData, rerr \in StreamErrors :
        Returns("SMTPHelp", SMTPHelp(c, werr, reply, rerr))

(***************************************************************************)
(* The handshake recorder (ztls).                                          *)
(***************************************************************************)
\* Byte values the key-exchange buffers are made of.
ByteVals == {0, 1, 2, 255}

\* buf[lo:hi] in Go: the bytes, or a panic when the bounds are out of range.
GoSlice(buf, lo, hi) ==
    IF 0 <= lo /\ lo <= hi /\ hi <= Len(buf)
    THEN [panic |-> FALSE, bytes |-> SubSeq(buf, lo + 1, hi)]
    ELSE [panic |-> TRUE, bytes |-> << >>]

\* Uint16 read little-endian.
Uint16_LittleEndian(buf) ==
    IF Len(buf) < 2 THEN [panic |-> TRUE, val |-> 0]
    ELSE [panic |-> FALSE, val |-> buf[2] * 256 + buf[1]]

\* binary.BigEndian.Uint16(buf): reads buf[0] and buf[1]
Uint16(buf) ==
    IF Len(buf) < 2 THEN [panic |-> TRUE, val |-> 0]
    ELSE [panic |-> FALSE, val |-> buf[1] * 256 + buf[2]]

\* big.Int.SetBytes: the unsigned big-endian value of the bytes
RECURSIVE SetBytes(_)
SetBytes(bytes) ==
    IF Len(bytes) = 0 THEN 0
    ELSE SetBytes(SubSeq(bytes, 1, Len(bytes) - 1)) * 256 + bytes[Len(bytes)]

BigInt(n) == [abs |-> n]

\* big.Int.BitLen
RECURSIVE BitLen(_)
BitLen(n) == IF n = 0 THEN 0 ELSE 1 + BitLen(n \div 2)

\* new(DHParams)
NewDHParams == [P |-> NilPtr, G |-> NilPtr, Ys |-> NilPtr]

\* One length-prefixed field of DHParams.unmarshal: the length check, the
\* 16-bit length, the bounds check and the two slices.
\* status is "ok", "short" (return false) or "panic".
ReadField(buf) ==
    IF Len(buf) < 2 THEN [status |-> "short", bytes |-> << >>, rest |-> buf]
    ELSE LET length == Uint16(buf)
             body == GoSlice(buf, 2, Len(buf))
         IN  IF length.panic \/ body.panic
             THEN [status |-> "panic", bytes |-> << >>, rest |-> buf]
             ELSE IF Len(body.bytes) < length.val
             THEN [status |-> "short", bytes |-> << >>, rest |-> body.bytes]
             ELSE LET field == GoSlice(body.bytes, 0, length.val)
                      rest == GoSlice(body.bytes, length.val, Len(body.bytes))
                  IN  IF field.panic \/ rest.panic
                      THEN [status |-> "panic", bytes |-> << >>, rest |-> buf]
                      ELSE [status |-> "ok", bytes |-> field.bytes, rest |-> rest.bytes]

\* DHParams.unmarshal on receiver p: the receiver it leaves, the bool it
\* returns, and whether it panicked on the way.
unmarshal(p, buf) ==
    LET f1 == ReadField(buf)
    IN  IF f1.status # "ok"
        THEN [p |-> p, ok |-> FALSE, panic |-> f1.status = "panic"]
        ELSE LET p1 == [p EXCEPT !.P = BigInt(SetBytes(f1.bytes))]
                 f2 == ReadField(f1.rest)
             IN  IF f2.status # "ok"
                 THEN [p |-> p1, ok |-> FALSE, panic |-> f2.status = "panic"]
                 ELSE LET p2 == [p1 EXCEPT !.G = BigInt(SetBytes(f2.bytes))]
                          f3 == ReadField(f2.rest)
                      IN  IF f3.status # "ok"
                          THEN [p |-> p2, ok |-> FALSE, panic |-> f3.status = "panic"]
                          ELSE [p |-> [p2 EXCEPT !.Ys = BigInt(SetBytes(f3.bytes))],
                                ok |-> TRUE, panic |-> FALSE]

\* The cipher families of the ztls cipher policy table. Their members are not
\* part of the source shown, so the model's suites 0..7 cover every combination
\* of memberships: suite s is in a family when the family's bit of s is set.
CipherSuiteIds == 0..7
RSAExportCiphers == {s \in CipherSuiteIds : s % 2 = 1}
DHEExportCiphers == {s \in CipherSuiteIds : (s \div 2) % 2 = 1}
DHECiphers == {s \in CipherSuiteIds : (s \div 4) % 2 = 1}
cipherInList(cipher, list) == cipher \in list

\* serverKeyExchangeMsg.MakeLog
SkxMakeLog(m) == [Key |-> m.key]

\* FoldExponent that shifts the word the other way.
RECURSIVE FoldExponent_ShiftsRight(_, _)
FoldExponent_ShiftsRight(word, bytes) ==
    IF bytes = << >> THEN word
    ELSE FoldExponent_ShiftsRight(<<Head(bytes), word[1], word[2], word[3]>>, Tail(bytes))

\* rsaExportParams.MakeLog: the exponent bytes folded into a 32-bit word
\* (kept as its four bytes, most significant first), the modulus and its length.
RECURSIVE FoldExponent(_, _)
FoldExponent(word, bytes) ==
    IF bytes = << >> THEN word
    ELSE FoldExponent(<<word[2], word[3], word[4], Head(bytes)>>, Tail(bytes))

RsaMakeLog(p) ==
    [ Modulus |-> SetBytes(p.rawModulus),
      Exponent |-> FoldExponent(<<0, 0, 0, 0>>, p.rawExponent),
      Length |-> BitLen(SetBytes(p.rawModulus)) ]

\* What rsaExportParams.unmarshal(skx.key) may give: it fails, or it splits
\* the key into exponent and modulus bytes.
RsaUnmarshalOutcomes ==
    { [ok |-> FALSE, rawModulus |-> << >>, rawExponent |-> << >>],
      [ok |-> TRUE, rawModulus |-> <<2, 1>>, rawExponent |-> <<1, 0, 1>>] }

\* A ServerHandshake log before the key exchange is recorded.
NewServerHandshake ==
    [ ServerKeyExchange |-> NilPtr, RSAExportParams |-> NilPtr,
      DHExportParams |-> NilPtr, DHParams |-> NilPtr ]

\* setSkx whose DHE-export branch also fills DHParams.
setSkx_ExportAlsoDH(h, m, cipher, rsa) ==
    LET h0 == [h EXCEPT !.ServerKeyExchange = SkxMakeLog(m)]
        d == unmarshal(NewDHParams, m.key)
    IN  IF cipherInList(cipher, RSAExportCiphers)
        THEN [hs |-> IF rsa.ok THEN [h0 EXCEPT !.RSAExportParams = RsaMakeLog(rsa)] ELSE h0,
              panic |-> FALSE]
        ELSE IF cipherInList(cipher, DHEExportCiphers)
        THEN [hs |-> IF d.ok THEN [h0 EXCEPT !.DHExportParams = d.p, !.DHParams = d.p]
                     ELSE h0,
              panic |-> d.panic]
        ELSE IF cipherInList(cipher, DHECiphers)
        THEN [hs |-> IF d.ok THEN [h0 EXCEPT !.DHParams = d.p] ELSE h0,
              panic |-> d.panic]
        ELSE [hs |-> h0, panic |-> FALSE]

\* setSkx whose DHE branches keep the DHParams whatever unmarshal returned.
setSkx_IgnoresDecodeResult(h, m, cipher, rsa) ==
    LET h0 == [h EXCEPT !.ServerKeyExchange = SkxMakeLog(m)]
        d == unmarshal(NewDHParams, m.key)
    IN  IF cipherInList(cipher, RSAExportCiphers)
        THEN [hs |-> IF rsa.ok THEN [h0 EXCEPT !.RSAExportParams = RsaMakeLog(rsa)] ELSE h0,
              panic |-> FALSE]
        ELSE IF cipherInList(cipher, DHEExportCiphers)
        THEN [hs |-> [h0 EXCEPT !.DHExportParams = d.p], panic |-> d.panic]
        ELSE IF cipherInList(cipher, DHECiphers)
        THEN [hs |-> [h0 EXCEPT !.DHParams = d.p], panic |-> d.panic]
        ELSE [hs |-> h0, panic |-> FALSE]

\* ServerHandshake.setSkx, with the outcome rsa of rsaExportParams.unmarshal.
\* panic: a decoder panicked.
setSkx(h, m, cipher, rsa) ==
    LET h0 == [h EXCEPT !.ServerKeyExchange = SkxMakeLog(m)]
        d == unmarshal(NewDHParams, m.key)
    IN  IF cipherInList(cipher, RSAExportCiphers)
        THEN [hs |-> IF rsa.ok THEN [h0 EXCEPT !.RSAExportParams = RsaMakeLog(rsa)] ELSE h0,
              panic |-> FALSE]
        ELSE IF cipherInList(cipher, DHEExportCiphers)
        THEN [hs |-> IF d.ok THEN [h0 EXCEPT !.DHExportParams = d.p] ELSE h0,
              panic |-> d.panic]
        ELSE IF cipherInList(cipher, DHECiphers)
        THEN [hs |-> IF d.ok THEN [h0 EXCEPT !.DHParams = d.p] ELSE h0,
              panic |-> d.panic]
        ELSE [hs |-> h0, panic |-> FALSE]

\* The hash and signature names of an ExportSignatureAlgorithm.
exportHashes == <<"MD5", "SHA-1", "SHA-224", "SHA-256", "SHA-384", "SHA-512">>
exportAlgorithms == <<"anon", "RSA", "DSA", "ECDSA">>

\* byte(x) of an unsigned value
Byte(x) == x % 256

\* EsaAux with the two identifier bytes swapped.
EsaAux_Swapped(v) ==
    LET value == v % 65536
        hash == Byte(value)
        alg == Byte(value \div 256)
    IN  [ Value |-> value,
          HashName |-> IF hash < Len(exportHashes) THEN exportHashes[hash + 1] ELSE "",
          HashID |-> hash,
          AlgName |-> IF alg < Len(exportAlgorithms) THEN exportAlgorithms[alg + 1] ELSE "",
          AlgID |-> alg ]

\* The aux struct ExportSignatureAlgorithm.MarshalJSON fills.
EsaAux(v) ==
    LET value == v % 65536
        hash == Byte(value \div 256)
        alg == Byte(value)
    IN  [ Value |-> value,
          HashName |-> IF hash < Len(exportHashes) THEN exportHashes[hash + 1] ELSE "",
          HashID |-> hash,
          AlgName |-> IF alg < Len(exportAlgorithms) THEN exportAlgorithms[alg + 1] ELSE "",
          AlgID |-> alg ]

\* json.Marshal(&aux): the object's members; an omitempty member is left out
\* when it is the empty string. A struct of strings and integers marshals
\* without error.
JsonOfAux(a) ==
    LET keys == {"value", "hash_id", "algorithm_id"}
                \cup (IF a.HashName # "" THEN {"hash_name"} ELSE {})
                \cup (IF a.AlgName # "" THEN {"algorithm_name"} ELSE {})
    IN  [k \in keys |->
            CASE k = "value" -> a.Value
              [] k = "hash_id" -> a.HashID
              [] k = "algorithm_id" -> a.AlgID
              [] k = "hash_name" -> a.HashName
              [] k = "algorithm_name" -> a.AlgName]

\* ExportSignatureAlgorithm.MarshalJSON
MarshalJSON(v) == [json |-> JsonOfAux(EsaAux(v)), err |-> Nil]

(***************************************************************************)
(* Actions of the recorder.                                                *)
(***************************************************************************)
CallUnmarshal ==
    /\ ~dh.called
    /\ LET r == unmarshal(NewDHParams, skx.key)
       IN  dh' = [called |-> TRUE, p |-> r.p, ok |-> r.ok, panic |-> r.panic]
    /\ UNCHANGED <<skx, hs, rsaExport, connVars, esaVars>>

CallSetSkx ==
    /\ ~hs.called
    /\ \E rsa \in RsaUnmarshalOutcomes :
         LET r == setSkx(NewServerHandshake, skx, skx.cipher, rsa)
         IN  hs' = [called |-> TRUE, log |-> r.hs, panic |-> r.panic, rsaOk |-> rsa.ok]
    /\ UNCHANGED <<skx, dh, rsaExport, connVars, esaVars>>

CallRsaMakeLog ==
    /\ ~rsaExport.called
    /\ rsaExport' = [called |-> TRUE, p |-> rsaExport.p, log |-> RsaMakeLog(rsaExport.p)]
    /\ UNCHANGED <<skx, hs, dh, connVars, esaVars>>

CallMarshalJSON ==
    /\ ~aux.called
    /\ aux' = [called |-> TRUE, out |-> MarshalJSON(esa)]
    /\ UNCHANGED <<esa, connVars, recorderVars>>

(***************************************************************************)
(* Specifications.                                                         *)
(***************************************************************************)
InitConn ==
    /\ c = NewConn
    /\ ret = [op |-> "NewConn", err |-> Nil, n |-> 0]
    /\ trace = << >>
    /\ engine = [Client |-> 0, Handshake |-> 0]

NotCalled == [called |-> FALSE]

\* An rsaExportParams value with no bytes.
NoRsaParams == [called |-> FALSE, p |-> [rawModulus |-> << >>, rawExponent |-> << >>]]

IdleRecorder ==
    /\ skx = [key |-> << >>, cipher |-> 0]
    /\ hs = NotCalled
    /\ dh = NotCalled
    /\ rsaExport = NoRsaParams

IdleEsa ==
    /\ esa = 0
    /\ aux = NotCalled

\* The Conn: the upgrade state machine and its probes.
Init == InitConn /\ IdleRecorder /\ IdleEsa

Next ==
    \/ CallTLSHandshake
    \/ CallSMTPStartTLSHandshake
    \/ CallPOP3StartTLSHandshake
    \/ CallIMAPStartTLSHandshake
    \/ CallCheckHeartbleed
    \/ CallGetFTPSCertificates
    \/ CallSetSafariCiphers
    \/ CallSetChromeCiphers

Spec == Init /\ [][Next]_vars

\* The scan configuration: any setters in any order, then the handshake.
NextPolicy ==
    \/ CallSetAny
    \/ CallSetDomain
    \/ CallTLSHandshake

SpecPolicy == Init /\ [][NextPolicy]_vars

\* The deadlines: any setters in any order around the handshake.
NextDeadline ==
    \/ CallSetDeadline
    \/ CallSetReadDeadline
    \/ CallSetWriteDeadline
    \/ CallTLSHandshake

SpecDeadline == Init /\ [][NextDeadline]_vars

\* The operations that record what they sent or received, before and after
\* the handshake.
NextRecord ==
    \/ CallWrite
    \/ CallRead
    \/ CallBasicBanner
    \/ CallProtocolBanner
    \/ CallTLSHandshake

SpecRecord == Init /\ [][NextRecord]_vars

\* The pass-through operations, before and after the handshake.
NextIO ==
    \/ CallWrite
    \/ CallRead
    \/ CallBasicBanner
    \/ CallProtocolBanner
    \/ CallClose
    \/ CallEHLO
    \/ CallSMTPHelp
    \/ CallSetDeadline
    \/ CallSetReadDeadline
    \/ CallSetWriteDeadline
    \/ CallTLSHandshake

SpecIO == Init /\ [][NextIO]_vars

\* The upgrade state machine with generic reads and writes in between.
NextOps ==
    \/ Next
    \/ CallWrite
    \/ CallRead

SpecOps == Init /\ [][NextOps]_vars

\* DHParams.unmarshal on every key-exchange buffer within the bounds.
InitDH ==
    /\ InitConn /\ IdleEsa
    /\ \E n \in 0..MaxBufLen : \E key \in [1..n -> ByteVals] :
           skx = [key |-> key, cipher |-> 0]
    /\ hs = NotCalled
    /\ dh = NotCalled
    /\ rsaExport = NoRsaParams

SpecDH == InitDH /\ [][CallUnmarshal]_vars

\* setSkx on a fresh log, for every suite and key within the bounds.
InitSkx ==
    /\ InitConn /\ IdleEsa
    /\ \E n \in 0..MaxKeyLen : \E key \in [1..n -> ByteVals] :
           \E cipher \in CipherSuiteIds : skx = [key |-> key, cipher |-> cipher]
    /\ hs = NotCalled
    /\ dh = NotCalled
    /\ rsaExport = NoRsaParams

SpecSkx == InitSkx /\ [][CallSetSkx]_vars

\* rsaExportParams.MakeLog on every exponent and modulus within the bounds.
InitRsa ==
    /\ InitConn /\ IdleEsa
    /\ skx = [key |-> << >>, cipher |-> 0]
    /\ hs = NotCalled
    /\ dh = NotCalled
    /\ \E n \in 0..MaxExponentLen, m \in 0..MaxModulusLen :
       \E rawExponent \in [1..n -> ByteVals], rawModulus \in [1..m -> ByteVals] :
           rsaExport = [called |-> FALSE,
                        p |-> [rawModulus |-> rawModulus, rawExponent |-> rawExponent]]

SpecRsa == InitRsa /\ [][CallRsaMakeLog]_vars

\* ExportSignatureAlgorithm.MarshalJSON on every 16-bit value.
InitEsa ==
    /\ InitConn /\ IdleRecorder
    /\ esa \in 0..65535
    /\ aux = NotCalled

SpecEsa == InitEsa /\ [][CallMarshalJSON]_vars

(***************************************************************************)
(* Properties.                                                             *)
(***************************************************************************)
StartTLSOps == {"SMTPStartTLSHandshake", "POP3StartTLSHandshake", "IMAPStartTLSHandshake"}

\* The last method called tlsConn.Handshake().
Handshook == CallsTo(trace, "tlsConn.Handshake") # {}
\* The error tlsConn.Handshake() returned to it.
HandshakeErr == trace[Len(trace)].err

\* The last STARTTLS method sent its command: it was called on a plaintext Conn.
SentCommand == trace # << >> /\ trace[1].fn = "conn.Write"
\* It went on to read a reply.
ReadReply == Len(trace) >= 2 /\ trace[2].fn = "conn.ReadUntilRegex"

\* A reply's success by each protocol's convention.
IsCode2xx(reply) ==
    /\ Len(reply) >= 3
    /\ reply[1] = "2" /\ IsDigit(reply[2]) /\ IsDigit(reply[3])
BeginsWith(reply, text) == Len(reply) >= Len(text) /\ SubSeq(reply, 1, Len(text)) = text
SuccessReply(op, reply) ==
    CASE op = "SMTPStartTLSHandshake" -> IsCode2xx(reply) /\ Len(reply) >= 5
      [] op = "POP3StartTLSHandshake" -> BeginsWith(reply, <<"+">>)
      [] op = "IMAPStartTLSHandshake" -> BeginsWith(reply, <<"a","0","0","1"," ","O","K">>)

\* The negotiation of the last STARTTLS method was not accepted: the send
\* failed, the read failed (a truncated read ends in an error of the read),
\* or the reply read is short or no success reply.
NotAccepted ==
    \/ trace[1].err # Nil
    \/ ReadReply /\ trace[2].err # Nil
    \/ ReadReply /\ ~SuccessReply(ret.op, trace[2].data)

\* C1: a TLSHandshake call on a Conn already in TLS mode returns the repeat
\* handshake error, calls neither ztls.Client nor Handshake, and leaves the
\* recorded handshake log and the TLS stream as they were.
C1_RepeatHandshakeRefused ==
    [][(CallTLSHandshake /\ c.isTls) =>
          /\ ret'.err = ErrRepeatHandshake
          /\ trace' = << >>
          /\ engine' = engine
          /\ c'.grabData.TLSHandshake = c.grabData.TLSHandshake
          /\ c'.tlsConn = c.tlsConn]_vars

C1_Witness ==
    /\ ret.op = "TLSHandshake" /\ ret.err = ErrRepeatHandshake
    /\ c.isTls /\ c.grabData.TLSHandshake # NilPtr

\* C2: a STARTTLS handshake (SMTP, POP3, IMAP) called on a plaintext Conn whose
\* negotiation is not accepted returns an error, does not call the TLS
\* handshake, and leaves the Conn plaintext: isTls false, no TLS stream, the
\* raw stream still the one in use.
C2_FailedNegotiationStaysPlain ==
    (ret.op \in StartTLSOps /\ SentCommand /\ NotAccepted) =>
        /\ ret.err # Nil
        /\ ~Handshook
        /\ engine.Handshake = 0 /\ engine.Client = 0
        /\ ~c.isTls
        /\ c.tlsConn = NilPtr
        /\ getUnderlyingConn(c) = "conn"

C2_Witness ==
    /\ ret.op = "POP3StartTLSHandshake" /\ SentCommand /\ ReadReply
    /\ trace[2].err = ErrIO /\ BeginsWith(trace[2].data, <<"+">>)
    /\ ret.err = ErrIO /\ ~c.isTls

\* C3: SMTPStartTLSHandshake goes on to the TLS handshake exactly when the
\* command was sent without error, the reply was read without error, is at
\* least 5 bytes long and begins with a code in 200..299; whenever a reply was
\* read, its bytes are in grabData.StartTLS.
C3_SmtpProceedsIffAccepted ==
    ret.op = "SMTPStartTLSHandshake" =>
        /\ Handshook <=> ( /\ SentCommand /\ trace[1].err = Nil
                           /\ ReadReply /\ trace[2].err = Nil
                           /\ Len(trace[2].data) >= 5
                           /\ IsCode2xx(trace[2].data) )
        /\ (SentCommand /\ trace[1].err = Nil) => ReadReply
        /\ ReadReply => c.grabData.StartTLS = trace[2].data

C3_Witness ==
    /\ ret.op = "SMTPStartTLSHandshake" /\ Handshook /\ c.isTls
    /\ c.grabData.StartTLS = <<"2","2","0"," ","G","o"," ","a","h","e","a","d","\r","\n">>

\* C4: a method that ran the TLS handshake returns nil when ForceSuites was
\* set in the configuration and Handshake() returned ErrUnimplementedCipher,
\* and returns the error of Handshake() unchanged in every other case.
C4_ForcedSuitesMismatchIsSuccess ==
    Handshook =>
        ret.err = IF c.tlsConn.config.ForceSuites /\ HandshakeErr = ErrUnimplementedCipher
                  THEN Nil ELSE HandshakeErr

C4_Witness ==
    /\ ret.op = "TLSHandshake" /\ Handshook
    /\ c.tlsConn.config.ForceSuites /\ HandshakeErr = ErrUnimplementedCipher
    /\ ret.err = Nil

\* C5: a method that ran the TLS handshake has stored the engine's handshake
\* log in grabData.TLSHandshake when it returns, whether the handshake
\* succeeded or failed.
C5_HandshakeLogAlwaysStored ==
    Handshook =>
        /\ c.tlsConn.handshakeLog # NilPtr
        /\ c.grabData.TLSHandshake = c.tlsConn.handshakeLog

C5_Witness ==
    /\ Handshook /\ ret.err = ErrIO
    /\ c.grabData.TLSHandshake \in PartialLogs
    /\ c.grabData.TLSHandshake.ServerHello

\* C6: CheckHeartbleed on a Conn not in TLS mode returns the must-handshake
\* error with 0 bytes, makes no call on any stream, and leaves the Conn, its
\* Heartbleed record included, as it was.
C6_HeartbleedNeedsHandshake ==
    [][(CallCheckHeartbleed /\ ~c.isTls) =>
          /\ ret'.err = ErrMustHandshake /\ ret'.n = 0
          /\ trace' = << >>
          /\ c'.grabData.Heartbleed = c.grabData.Heartbleed
          /\ c' = c]_vars

C6_Witness ==
    ret.op = "CheckHeartbleed" /\ ret.err = ErrMustHandshake /\ ret.n = 0 /\ ~c.isTls

\* C7: CheckHeartbleed on a Conn in TLS mode probes the TLS stream, returns
\* nil for the heartbleed sentinel and any other error unchanged, and stores
\* the stream's heartbleed log in grabData.Heartbleed either way.
C7_HeartbleedSentinelIsSuccess ==
    (ret.op = "CheckHeartbleed" /\ c.isTls) =>
        /\ Len(trace) = 1 /\ trace[1].fn = "tlsConn.CheckHeartbleed"
        /\ ret.err = IF trace[1].err = HeartbleedError THEN Nil ELSE trace[1].err
        /\ c.tlsConn.heartbleedLog # NilPtr
        /\ c.grabData.Heartbleed = c.tlsConn.heartbleedLog

C7_Witness ==
    /\ ret.op = "CheckHeartbleed" /\ c.isTls
    /\ trace[1].err = HeartbleedError /\ ret.err = Nil
    /\ c.grabData.Heartbleed.Vulnerable

\* The parameter fields setSkx has filled in a log.
Populated(log) ==
    {f \in {"RSAExportParams", "DHExportParams", "DHParams"} : log[f] # NilPtr}

\* C8: setSkx on a fresh log fills at most one of RSAExportParams,
\* DHExportParams and DHParams, and none of them when the suite is in none of
\* the three families.
C8_AtMostOneParams ==
    hs.called =>
        /\ Cardinality(Populated(hs.log)) <= 1
        /\ skx.cipher \notin (RSAExportCiphers \cup DHEExportCiphers \cup DHECiphers)
              => Populated(hs.log) = {}

C8_Witness ==
    /\ hs.called
    /\ skx.cipher \in DHECiphers \ (RSAExportCiphers \cup DHEExportCiphers)
    /\ Populated(hs.log) = {"DHParams"}

\* The unsigned big-endian value of a byte string, byte by byte from the left.
RECURSIVE BigEndian(_)
BigEndian(bytes) ==
    IF bytes = << >> THEN 0
    ELSE Head(bytes) * 256 ^ (Len(bytes) - 1) + BigEndian(Tail(bytes))

\* buf holds three fields of lengths a, b, d, each behind its 16-bit length.
HoldsFields(buf, a, b, d) ==
    /\ Len(buf) >= 6 + a + b + d
    /\ buf[1] * 256 + buf[2] = a
    /\ buf[3 + a] * 256 + buf[4 + a] = b
    /\ buf[5 + a + b] * 256 + buf[6 + a + b] = d

FieldLengths(buf) ==
    LET room == 0..(Len(buf) - 6)
    IN  {l \in room \X room \X room : HoldsFields(buf, l[1], l[2], l[3])}

\* C9: DHParams.unmarshal never slices out of range; on a buffer that holds
\* three length-prefixed fields it returns true with P, G and Ys the unsigned
\* big-endian values of the fields; on every other buffer it returns false.
C9_UnmarshalDecodesOrRejects ==
    dh.called =>
        /\ ~dh.panic
        /\ dh.ok <=> FieldLengths(skx.key) # {}
        /\ \A l \in FieldLengths(skx.key) :
              /\ dh.p.P = BigInt(BigEndian(SubSeq(skx.key, 3, 2 + l[1])))
              /\ dh.p.G = BigInt(BigEndian(SubSeq(skx.key, 5 + l[1], 4 + l[1] + l[2])))
              /\ dh.p.Ys = BigInt(BigEndian(SubSeq(skx.key, 7 + l[1] + l[2],
                                                   6 + l[1] + l[2] + l[3])))

C9_Witness ==
    /\ dh.called /\ dh.ok
    /\ skx.key = <<0, 2, 255, 2, 0, 0, 0, 1, 1>>
    /\ dh.p = [P |-> BigInt(65282), G |-> BigInt(0), Ys |-> BigInt(1)]

\* C10: MarshalJSON of a 16-bit value v gives value = v, hash_id = v div 256,
\* algorithm_id = v mod 256, a hash name exactly when hash_id < 6, an algorithm
\* name exactly when algorithm_id < 4, and never an error.
C10_EsaSerialization ==
    aux.called =>
        LET json == aux.out.json
        IN  /\ aux.out.err = Nil
            /\ json["value"] = esa
            /\ json["hash_id"] = esa \div 256
            /\ json["algorithm_id"] = esa % 256
            /\ 256 * json["hash_id"] + json["algorithm_id"] = esa
            /\ ("hash_name" \in DOMAIN json) <=> (json["hash_id"] < 6)
            /\ ("algorithm_name" \in DOMAIN json) <=> (json["algorithm_id"] < 4)
            /\ "hash_name" \in DOMAIN json => json["hash_name"] # ""
            /\ "algorithm_name" \in DOMAIN json => json["algorithm_name"] # ""

C10_Witness ==
    /\ aux.called /\ esa = 7 * 256 + 1
    /\ "hash_name" \notin DOMAIN aux.out.json
    /\ aux.out.json["algorithm_name"] = "RSA"
    /\ aux.out.json["hash_id"] = 7

\* The cipher-policy flags in the order TLSHandshake looks at them, and the
\* list each stands for.
PolicyOrder ==
    << "onlyDHE", "onlyExports", "onlyExportsDH", "chromeCiphers", "chromeNoDHE",
       "firefoxCiphers", "firefoxNoDHECiphers", "safariCiphers", "safariNoDHECiphers" >>
PolicyList ==
    << "DHECiphers", "RSA512ExportCiphers", "DHEExportCiphers", "ChromeCiphers",
       "ChromeNoDHECiphers", "FirefoxCiphers", "FirefoxNoDHECiphers",
       "SafariCiphers", "SafariNoDHECiphers" >>
BrowserFlags == {PolicyOrder[i] : i \in 4..9}
SafariFlags == {"safariCiphers", "safariNoDHECiphers"}

\* The places in PolicyOrder of the flags set in f.
SetPlaces(f) == {i \in 1..Len(PolicyOrder) : f[PolicyOrder[i]]}
FirstSetList(f) ==
    IF SetPlaces(f) = {} THEN Nil
    ELSE PolicyList[CHOOSE i \in SetPlaces(f) : \A j \in SetPlaces(f) : i <= j]
LastSetList(f) ==
    IF SetPlaces(f) = {} THEN Nil
    ELSE PolicyList[CHOOSE i \in SetPlaces(f) : \A j \in SetPlaces(f) : i >= j]

\* A TLSHandshake call that builds a configuration: the Conn is plaintext.
BuildsConfig == CallTLSHandshake /\ ~c.isTls

\* C11 as stated: the configuration TLSHandshake builds offers the list of the
\* first set flag in the order DHE-only, export-only, export-DHE-only, Chrome,
\* Chrome-no-DHE, Firefox, Firefox-no-DHE, Safari, Safari-no-DHE, and the
\* default list (nil) when no flag is set.
C11_FirstSetFlagWins ==
    [][BuildsConfig => c'.tlsConn.config.CipherSuites = FirstSetList(c.flags)]_vars

\* C11, amended: the configuration TLSHandshake builds offers the list of the
\* LAST set flag in that order (each set flag overwrites the list of the flags
\* before it), and the default list (nil) when no flag is set.
C11_LastSetFlagWins ==
    [][BuildsConfig => c'.tlsConn.config.CipherSuites = LastSetList(c.flags)]_vars

C11_Witness ==
    /\ Handshook
    /\ {fl \in DOMAIN c.flags : c.flags[fl]} = {"onlyDHE", "chromeCiphers", "safariCiphers"}
    /\ c.tlsConn.config.CipherSuites = "SafariCiphers"

\* C12 as stated: with one browser-emulation flag set (Chrome, Chrome-no-DHE,
\* Firefox, Firefox-no-DHE, Safari, Safari-no-DHE) the configuration
\* TLSHandshake builds has ForceSuites set, and with no flag or one
\* non-browser flag (DHE-only, export-only, export-DHE-only) it has not.
C12_BrowserProfilesForceSuites ==
    [][(BuildsConfig /\ Cardinality(SetPlaces(c.flags)) <= 1) =>
          (c'.tlsConn.config.ForceSuites <=>
              \E i \in SetPlaces(c.flags) : PolicyOrder[i] \in BrowserFlags)]_vars

\* C12, amended: the configuration TLSHandshake builds has ForceSuites set
\* exactly when the Safari or the Safari-no-DHE flag is set; no other profile
\* (default, DHE-only, export-only, export-DHE-only, Chrome, Chrome-no-DHE,
\* Firefox, Firefox-no-DHE) sets it.
C12_SafariProfilesForceSuites ==
    [][BuildsConfig =>
          (c'.tlsConn.config.ForceSuites <=>
              \E i \in SetPlaces(c.flags) : PolicyOrder[i] \in SafariFlags)]_vars

C12_Witness ==
    /\ Handshook
    /\ SetPlaces(c.flags) = {6}
    /\ c.tlsConn.config.CipherSuites = "FirefoxCiphers"
    /\ ~c.tlsConn.config.ForceSuites

\* C19: the configuration TLSHandshake builds has the Conn's domain as
\* ServerName exactly when noSNI is not set and the domain is not empty, and
\* an empty ServerName otherwise.
C19_ServerNameUnlessNoSNI ==
    [][BuildsConfig =>
          /\ (c'.tlsConn.config.ServerName = c.domain /\ c.domain # EmptyString)
                <=> (~c.flags.noSNI /\ c.domain # EmptyString)
          /\ ~(~c.flags.noSNI /\ c.domain # EmptyString)
                => c'.tlsConn.config.ServerName = EmptyString]_vars

C19_Witness ==
    /\ Handshook
    /\ c.flags.noSNI /\ c.domain # EmptyString
    /\ c.tlsConn.config.ServerName = EmptyString
    /\ ret.op = "TLSHandshake" /\ ret.err = Nil

\* The last STARTTLS method sent its command and read a reply, both without
\* error.
SentAndRead ==
    /\ SentCommand /\ trace[1].err = Nil
    /\ ReadReply /\ trace[2].err = Nil

\* C13: POP3StartTLSHandshake goes on to the TLS handshake exactly when the
\* send and the read succeeded and the reply begins with "+";
\* IMAPStartTLSHandshake exactly when they succeeded and the reply begins with
\* "a001 OK"; either returns an error, without handshaking, otherwise.
C13_Pop3ImapProceedIffAccepted ==
    /\ ret.op = "POP3StartTLSHandshake" =>
          /\ Handshook <=> (SentAndRead /\ BeginsWith(trace[2].data, <<"+">>))
          /\ ~Handshook => ret.err # Nil
    /\ ret.op = "IMAPStartTLSHandshake" =>
          /\ Handshook <=> ( /\ SentAndRead
                             /\ BeginsWith(trace[2].data, <<"a","0","0","1"," ","O","K">>) )
          /\ ~Handshook => ret.err # Nil

C13_Witness ==
    /\ ret.op = "IMAPStartTLSHandshake" /\ Handshook /\ c.isTls
    /\ c.grabData.StartTLS = <<"a","0","0","1"," ","O","K","\r","\n">>

\* C14: over any sequence of TLSHandshake, STARTTLS handshakes,
\* GetFTPSCertificates, CheckHeartbleed, reads and writes, ztls.Client and
\* Handshake() are each called at most once on a Conn; no method sends its
\* command, reads a reply or handshakes a second time; and a STARTTLS command
\* is written only by a method that found no TLS stream (the Conn is in TLS
\* mode from the moment the stream exists).
C14_AtMostOneUpgrade ==
    /\ engine.Client <= 1 /\ engine.Handshake <= 1
    /\ c.isTls <=> engine.Client = 1
    /\ c.isTls <=> c.tlsConn # NilPtr
    /\ \A fn \in {"conn.Write", "conn.ReadUntilRegex", "ztls.Client", "tlsConn.Handshake"} :
          ret.op \in StartTLSOps \cup {"TLSHandshake", "GetFTPSCertificates"}
              => Cardinality(CallsTo(trace, fn)) <= 1
    /\ (ret.op \in StartTLSOps /\ SentCommand)
          => engine.Client = Cardinality(CallsTo(trace, "ztls.Client"))

C14_Witness ==
    /\ ret.op = "SMTPStartTLSHandshake" /\ ret.err = ErrStartTLSAfterTLS
    /\ trace = << >>
    /\ engine.Handshake = 1 /\ c.tlsConn.handshakeErr = ErrIO
    /\ c.grabData.Write = <<"a">> /\ c.grabData.StartTLS # EmptyString

\* The key-exchange bytes of a suite in an export or DHE family failed to
\* decode: the RSA-export decoder refused them, or the suite is decoded as
\* Diffie-Hellman and the bytes do not hold three length-prefixed fields.
DecodeFailed ==
    IF skx.cipher \in RSAExportCiphers THEN ~hs.rsaOk
    ELSE /\ skx.cipher \in DHEExportCiphers \cup DHECiphers
         /\ FieldLengths(skx.key) = {}

\* C15: when the suite is in an export or DHE family and the key-exchange
\* bytes fail to decode, setSkx leaves all three parameter fields unset, has
\* the raw bytes in ServerKeyExchange, and ends without a panic (it has no
\* error to return).
C15_DecodeFailureIsSilent ==
    (hs.called /\ DecodeFailed) =>
        /\ Populated(hs.log) = {}
        /\ hs.log.ServerKeyExchange = [Key |-> skx.key]
        /\ ~hs.panic

C15_Witness ==
    /\ hs.called
    /\ skx.cipher \in DHEExportCiphers \ RSAExportCiphers
    /\ skx.key = <<0, 1, 255, 0, 2, 1>>
    /\ hs.log.DHExportParams = NilPtr
    /\ hs.log.ServerKeyExchange.Key = <<0, 1, 255, 0, 2, 1>>

\* C20: GetFTPSCertificates calls TLSHandshake exactly when ftp.SetupFTPS
\* returned ready without error (on a plaintext Conn the handshake then runs,
\* on a Conn in TLS mode it is refused as a repeat); on an error of SetupFTPS
\* it returns that error, on not ready it returns nil, and in both cases it
\* runs no handshake and leaves the Conn as it was.
C20_FtpsHandshakesIffReady ==
    [][CallGetFTPSCertificates =>
          LET setup == trace'[1]
              shook == CallsTo(trace', "tlsConn.Handshake") # {}
          IN  /\ setup.fn = "ftp.SetupFTPS"
              /\ (setup.err = Nil /\ setup.data = <<TRUE>>) =>
                    IF c.isTls
                    THEN ret'.err = ErrRepeatHandshake /\ ~shook
                    ELSE shook /\ c'.isTls
              /\ setup.err # Nil =>
                    (ret'.err = setup.err /\ ~shook /\ c' = c)
              /\ (setup.err = Nil /\ setup.data = <<FALSE>>) =>
                    (ret'.err = Nil /\ ~shook /\ c' = c)]_vars

C20_Witness ==
    /\ ret.op = "GetFTPSCertificates" /\ ret.err = Nil
    /\ trace = << Call("ftp.SetupFTPS", <<FALSE>>, Nil) >>
    /\ ~c.isTls /\ c.tlsConn = NilPtr

\* C16: SetDeadline caches its argument as read and write deadline,
\* SetReadDeadline and SetWriteDeadline cache theirs as the one they name and
\* leave the other, TLSHandshake leaves both; and the TLSHandshake that
\* creates the TLS stream applies the cached read and write deadline to it.
\* So the stream starts its handshake under the last deadlines the caller set.
C16_LastDeadlinesApplied ==
    [][/\ CallSetDeadline =>
            (c'.readDeadline = trace'[1].data /\ c'.writeDeadline = trace'[1].data)
       /\ CallSetReadDeadline =>
            (c'.readDeadline = trace'[1].data /\ c'.writeDeadline = c.writeDeadline)
       /\ CallSetWriteDeadline =>
            (c'.writeDeadline = trace'[1].data /\ c'.readDeadline = c.readDeadline)
       /\ CallTLSHandshake =>
            /\ c'.readDeadline = c.readDeadline /\ c'.writeDeadline = c.writeDeadline
            /\ ~c.isTls => /\ c'.tlsConn.readDeadline = c.readDeadline
                           /\ c'.tlsConn.writeDeadline = c.writeDeadline]_vars

C16_Witness ==
    /\ ret.op = "TLSHandshake" /\ Handshook
    /\ c.readDeadline = 2 /\ c.writeDeadline = 1
    /\ c.tlsConn.readDeadline = 2 /\ c.tlsConn.writeDeadline = 1

\* s holds the bytes of part in a row.
Contains(s, part) ==
    \E i \in 1..(Len(s) - Len(part) + 1) : SubSeq(s, i, i + Len(part) - 1) = part

\* C17 as stated: the record accumulates, so whatever a generic Write, a Read
\* or a banner read stored in the record is still in its field after any
\* later operation.
C17_EarlierDataStillPresent ==
    [][\A f \in {"Write", "Read", "Banner"} :
          Contains(c'.grabData[f], c.grabData[f])]_vars

\* C17, amended: a generic Write stores the bytes it wrote in the record's
\* Write field, a Read the bytes it read in Read, a banner read the bytes it
\* read in Banner, each replacing what that field held and leaving every
\* other field of the record as it was; data an earlier operation recorded
\* stays until a later operation on the same field replaces it.
C17_EachFieldHoldsLastData ==
    [][/\ CallWrite =>
            c'.grabData = [c.grabData EXCEPT !.Write = SubSeq(trace'[1].data, 1, ret'.n)]
       /\ CallRead =>
            c'.grabData = [c.grabData EXCEPT !.Read = trace'[1].data]
       /\ (CallBasicBanner \/ CallProtocolBanner) =>
            c'.grabData = [c.grabData EXCEPT !.Banner = trace'[1].data]]_vars

C17_Witness ==
    /\ ret.op = "Write" /\ ret.n = 1 /\ ret.err = ErrIO
    /\ c.grabData.Write = <<"b">>
    /\ c.grabData.Read = <<"x">> /\ c.grabData.Banner = <<"x">>

\* The pass-through operations, and the calls that act on each stream.
PassThroughOps ==
    { "Write", "Read", "Close", "BasicBanner", "SMTPBanner", "POP3Banner",
      "IMAPBanner", "EHLO", "SMTPHelp",
      "SetDeadline", "SetReadDeadline", "SetWriteDeadline" }
StreamMethods ==
    { ".Write", ".Read", ".Close", ".ReadUntilRegex",
      ".SetDeadline", ".SetReadDeadline", ".SetWriteDeadline" }
RawStreamCalls == {"conn" \o m : m \in StreamMethods}
TlsStreamCalls == {"tlsConn" \o m : m \in StreamMethods}

\* C18: every pass-through operation makes its calls on the raw stream while
\* the Conn is plaintext and on the TLS stream once it is in TLS mode, never
\* the other way round.
C18_PassThroughUsesActiveStream ==
    ret.op \in PassThroughOps =>
        /\ trace # << >>
        /\ \A i \in 1..Len(trace) :
              /\ ~c.isTls => trace[i].fn \in RawStreamCalls
              /\ c.isTls => trace[i].fn \in TlsStreamCalls

C18_Witness ==
    /\ ret.op = "EHLO" /\ c.isTls /\ Len(trace) = 2
    /\ trace[1].fn = "tlsConn.Write" /\ trace[2].fn = "tlsConn.ReadUntilRegex"
    /\ c.grabData.EHLO = <<"x">>

\* The Conn is in TLS mode and the handshake on its TLS stream failed.
FailedInTlsMode == c.isTls /\ c.tlsConn.handshakeErr # Nil

\* C21: a method whose TLS handshake returned an error leaves the Conn in TLS
\* mode. From then on a TLSHandshake call is refused as a repeat, a STARTTLS
\* method is refused without writing its command, CheckHeartbleed passes its
\* guard and probes the TLS stream, Write and Read act on the TLS stream; and
\* a Conn in TLS mode never leaves it.
C21_TlsModeSurvivesFailedHandshake ==
    /\ [](Handshook => c.isTls)
    /\ []( (FailedInTlsMode /\ ~Handshook) =>
              /\ ret.op = "TLSHandshake" =>
                    (ret.err = ErrRepeatHandshake /\ trace = << >>)
              /\ ret.op \in StartTLSOps =>
                    (ret.err = ErrStartTLSAfterTLS /\ trace = << >>)
              /\ ret.op = "CheckHeartbleed" =>
                    /\ ret.err # ErrMustHandshake
                    /\ Len(trace) = 1 /\ trace[1].fn = "tlsConn.CheckHeartbleed"
              /\ ret.op \in {"Write", "Read"} =>
                    \A i \in 1..Len(trace) : trace[i].fn \in TlsStreamCalls )
    /\ [][c.isTls => c'.isTls]_vars

C21_Witness ==
    /\ FailedInTlsMode /\ c.tlsConn.handshakeErr = ErrIO
    /\ c.grabData.TLSHandshake \in PartialLogs
    /\ c.grabData.Heartbleed # NilPtr
    /\ ret.op = "Write" /\ ret.err = Nil
    /\ trace[1].fn = "tlsConn.Write"

\* The unsigned big-endian value of bytes modulo 2^32, as its upper and lower
\* 16 bits: Horner's rule with every step reduced modulo 2^32.
RECURSIVE BigEndianMod32(_)
BigEndianMod32(bytes) ==
    IF bytes = << >> THEN <<0, 0>>
    ELSE LET v == BigEndianMod32(SubSeq(bytes, 1, Len(bytes) - 1))
             lo == v[2] * 256 + bytes[Len(bytes)]
             hi == v[1] * 256 + lo \div 65536
         IN <<hi % 65536, lo % 65536>>

\* The upper and lower 16 bits of a 32-bit word kept as four bytes.
Halves(word) == <<word[1] * 256 + word[2], word[3] * 256 + word[4]>>

\* The last four of bytes, or all of them when there are fewer.
LastFour(bytes) ==
    IF Len(bytes) > 4 THEN SubSeq(bytes, Len(bytes) - 3, Len(bytes)) ELSE bytes

\* The number of bits of n: the least k with n < 2^k.
BitLength(n) == CHOOSE k \in 0..30 : n < 2 ^ k /\ (k = 0 \/ n >= 2 ^ (k - 1))

\* C22: the exponent MakeLog records is the unsigned big-endian value of the
\* raw exponent bytes modulo 2^32, which only the last four bytes determine,
\* and the length it records is the bit length of the modulus read as an
\* unsigned big-endian integer.
C22_RsaExponentAndLength ==
    rsaExport.called =>
        /\ Halves(rsaExport.log.Exponent) = BigEndianMod32(rsaExport.p.rawExponent)
        /\ Halves(rsaExport.log.Exponent)
              = BigEndianMod32(LastFour(rsaExport.p.rawExponent))
        /\ Len(rsaExport.p.rawExponent) <= 3 =>
              Halves(rsaExport.log.Exponent)[1] * 65536
                 + Halves(rsaExport.log.Exponent)[2]
                 = BigEndian(rsaExport.p.rawExponent)
        /\ rsaExport.log.Length = BitLength(BigEndian(rsaExport.p.rawModulus))

\* Five exponent bytes whose first is lost, and a modulus with leading zero bits.
C22_Witness ==
    /\ rsaExport.called
    /\ rsaExport.p.rawExponent = <<1, 0, 1, 0, 1>>
    /\ rsaExport.log.Exponent = <<0, 1, 0, 1>>
    /\ rsaExport.p.rawModulus = <<0, 2>>
    /\ rsaExport.log.Length = 2

====
